---- MODULE Spec2Model ----
(***************************************************************************)
(* pabotscope: reconstruction of the concurrency timeline of a pabot log   *)
(* (src/src/pabotscope.py).                                                *)
(*                                                                         *)
(* Time is counted in ticks of half a second, so that timestamps that are  *)
(* not a whole number of seconds apart occur.  A test name is identified   *)
(* by its rank in string order, which is what the tuple comparison of      *)
(* timeline.sort() reads.  A Python dict is a sequence of <<key, value>>   *)
(* pairs in insertion order.  A log line is identified by what the two     *)
(* compiled patterns find in it.                                           *)
(***************************************************************************)
EXTENDS Integers, Sequences, FiniteSets

\* pc               where main (or the function called on its own) stands
\* lines_read       the lines of the log consumed by the for loop (line 141)
\* log_lines        the log handed to parse_log_lines on its own
\* starts, ends, durations   the three dicts of parse_log_lines (137-139)
\* timeline         build_timeline's result (line 188)
\* time_cursor, end_time, parallel_counts   the sampling loop (191-205)
\* stdout           what has been printed
\* ds_counts, ds_height, ds_width   the arguments of downsample_to_width
\* ds_result        what it returns or raises
VARIABLES pc, lines_read, log_lines, starts, ends, durations, timeline,
          time_cursor, end_time, parallel_counts, stdout,
          ds_counts, ds_height, ds_width, ds_result

vars == <<pc, lines_read, log_lines, starts, ends, durations, timeline,
          time_cursor, end_time, parallel_counts, stdout,
          ds_counts, ds_height, ds_width, ds_result>>

-----------------------------------------------------------------------------
(* Bounds of the model *)

\* lines of the log file read by one run of main
MaxLines == 4
\* largest timestamp of a log line, in ticks
MaxTime == 4
\* length of the log handed to parse_log_lines on its own
MaxLogLen == 3
\* length of the series handed to downsample_to_width on its own
MaxLen == 5
\* largest count of that series
MaxCount == 1
\* largest max_width handed to downsample_to_width on its own
MaxWidth == 4

\* the test names of the log, by rank in string order
Tests == {1, 2}
Timestamps == 0..MaxTime
\* the durations a PASSED line reports, in ticks
Durations == {0, 2}

-----------------------------------------------------------------------------
(* Python dicts *)

Keys(d) == {d[i][1] : i \in 1..Len(d)}

Has(d, k) == \E i \in 1..Len(d) : d[i][1] = k

\* d.get(k, default)
Get(d, k, default) ==
    IF Has(d, k) THEN d[CHOOSE i \in 1..Len(d) : d[i][1] = k][2] ELSE default

\* d[k] = v: an existing key keeps its place
Put(d, k, v) ==
    IF Has(d, k)
    THEN [i \in 1..Len(d) |-> IF d[i][1] = k THEN <<k, v>> ELSE d[i]]
    ELSE Append(d, <<k, v>>)

-----------------------------------------------------------------------------
(* parse_log_lines *)

\* what executing_re and passed_re find in one line
Line(e, p, ts, et, pt, dur) ==
    [exec_match |-> e, pass_match |-> p, timestamp |-> ts,
     exec_test |-> et, pass_test |-> pt, duration |-> dur]

ExecLines(T) == {Line(TRUE, FALSE, ts, t, t, 0) : ts \in T, t \in Tests}
PassLines(T) ==
    {Line(FALSE, TRUE, ts, t, t, d) : ts \in T, t \in Tests, d \in Durations}
\* "<ts> EXECUTING x PASSED y in <d> seconds": both patterns match
BothLines(T) ==
    {Line(TRUE, TRUE, ts, et, pt, 2) : ts \in T, et \in Tests, pt \in Tests}
OtherLines == {Line(FALSE, FALSE, 0, 1, 1, 0)}
Lines(T) == ExecLines(T) \cup PassLines(T) \cup BothLines(T) \cup OtherLines

\* the loop body without its continue: a line matching both patterns goes on
\* to the pass branch
ParseLineNoContinue(m, line) ==
    LET s == IF line.exec_match
             THEN Put(m[1], line.exec_test, line.timestamp) ELSE m[1]
    IN  IF line.pass_match
        THEN <<s, Put(m[2], line.pass_test, line.timestamp),
               Put(m[3], line.pass_test, line.duration)>>
        ELSE <<s, m[2], m[3]>>

\* the loop body with the duration stored as soon as the pass pattern
\* matches, before the start pattern is looked at
ParseLineEagerDuration(m, line) ==
    LET d == IF line.pass_match
             THEN Put(m[3], line.pass_test, line.duration) ELSE m[3]
    IN  IF line.exec_match
        THEN <<Put(m[1], line.exec_test, line.timestamp), m[2], d>>
        ELSE IF line.pass_match
             THEN <<m[1], Put(m[2], line.pass_test, line.timestamp), d>>
             ELSE m

\* the body of the for loop, on the three dicts m = <<starts, ends, durations>>
ParseLine(m, line) ==
    IF line.exec_match
    THEN <<Put(m[1], line.exec_test, line.timestamp), m[2], m[3]>>
    ELSE IF line.pass_match
         THEN <<m[1], Put(m[2], line.pass_test, line.timestamp),
                Put(m[3], line.pass_test, line.duration)>>
         ELSE m

RECURSIVE ParseFrom(_, _, _)
ParseFrom(m, lines, i) ==
    IF i > Len(lines) THEN m ELSE ParseFrom(ParseLine(m, lines[i]), lines, i + 1)

parse_log_lines(lines) == ParseFrom(<<<<>>, <<>>, <<>>>>, lines, 1)

-----------------------------------------------------------------------------
(* build_timeline *)

\* the fallback with a default duration of one second:
\* durations.get(test, 1)
EndOfDefaultOne(test, start_time, e, d) ==
    Get(e, test, start_time + Get(d, test, 2))

\* ends.get(test, start_time + timedelta(seconds=durations.get(test, 0)))
EndOf(test, start_time, e, d) == Get(e, test, start_time + Get(d, test, 0))

\* Python's order on the tuples (time, event_type, test): "end" < "start"
KindRank(kind) == IF kind = "end" THEN 0 ELSE 1

TupleLess(a, b) ==
    \/ a[1] < b[1]
    \/ a[1] = b[1] /\ KindRank(a[2]) < KindRank(b[2])
    \/ a[1] = b[1] /\ a[2] = b[2] /\ a[3] < b[3]

RECURSIVE Insert(_, _)
Insert(sorted, x) ==
    IF sorted = <<>> THEN <<x>>
    ELSE IF TupleLess(x, Head(sorted)) THEN <<x>> \o sorted
         ELSE <<Head(sorted)>> \o Insert(Tail(sorted), x)

RECURSIVE SortFrom(_, _, _)
SortFrom(sorted, s, i) ==
    IF i > Len(s) THEN sorted ELSE SortFrom(Insert(sorted, s[i]), s, i + 1)

RECURSIVE InsertByTimestamp(_, _)
InsertByTimestamp(sorted, x) ==
    IF sorted = <<>> THEN <<x>>
    ELSE IF x[1] < Head(sorted)[1] THEN <<x>> \o sorted
         ELSE <<Head(sorted)>> \o InsertByTimestamp(Tail(sorted), x)

RECURSIVE SortByTimestampFrom(_, _, _)
SortByTimestampFrom(sorted, s, i) ==
    IF i > Len(s) THEN sorted
    ELSE SortByTimestampFrom(InsertByTimestamp(sorted, s[i]), s, i + 1)

\* a stable sort on the timestamp alone: list.sort(key=lambda r: r[0])
SortByTimestamp(s) == SortByTimestampFrom(<<>>, s, 1)

\* list.sort() of a list of tuples
ListSort(s) == SortFrom(<<>>, s, 1)

RECURSIVE Unsorted(_, _, _, _)
Unsorted(s, e, d, i) ==
    IF i > Len(s) THEN <<>>
    ELSE << <<s[i][2], "start", s[i][1]>>,
            <<EndOf(s[i][1], s[i][2], e, d), "end", s[i][1]>> >>
         \o Unsorted(s, e, d, i + 1)

build_timeline(s, e, d) == ListSort(Unsorted(s, e, d, 1))

-----------------------------------------------------------------------------
(* Python floats: IEEE-754 doubles.  A double is hi * 2^-exp plus the       *)
(* fraction lo, four digits of 13 bits, times 2^-exp: 53 significant bits.  *)

LimbBase == 8192
LimbBits == 13

RECURSIVE Pow2(_)
Pow2(n) == IF n = 0 THEN 1 ELSE 2 * Pow2(n - 1)

RECURSIVE BitLen(_)
BitLen(t) == IF t = 0 THEN 0 ELSE 1 + BitLen(t \div 2)

FloatZero == [hi |-> 0, lo |-> <<0, 0, 0, 0>>, exp |-> 0]

\* add inc to the last digit of hi.lo and carry
Carry(hi, lo, inc) ==
    LET v4 == lo[4] + inc
        v3 == lo[3] + (v4 \div LimbBase)
        v2 == lo[2] + (v3 \div LimbBase)
        v1 == lo[1] + (v2 \div LimbBase)
    IN  [hi |-> hi + (v1 \div LimbBase),
         lo |-> <<v1 % LimbBase, v2 % LimbBase, v3 % LimbBase, v4 % LimbBase>>]

\* least e with a * 2^e >= b
RECURSIVE ShiftUp(_, _)
ShiftUp(a, b) == IF a >= b THEN 0 ELSE 1 + ShiftUp(2 * a, b)

\* greatest e with b * 2^e <= a
RECURSIVE ShiftDown(_, _)
ShiftDown(a, b) == IF 2 * b > a THEN 0 ELSE 1 + ShiftDown(a, 2 * b)

\* a / b for integers a >= 0, b >= 1: the quotient rounded to the nearest
\* double, ties to even
FloatDiv(a, b) ==
    IF a = 0 THEN FloatZero
    ELSE LET ea == ShiftUp(a, b)
             eb == ShiftDown(a, b)
             a2 == a * Pow2(ea)
             b2 == b * Pow2(eb)
             x1 == (a2 - b2) * LimbBase
             x2 == (x1 % b2) * LimbBase
             x3 == (x2 % b2) * LimbBase
             x4 == (x3 % b2) * LimbBase
             r  == x4 % b2
             l4 == x4 \div b2
             up == 2 * r > b2 \/ (2 * r = b2 /\ l4 % 2 = 1)
             m  == Carry(1, <<x1 \div b2, x2 \div b2, x3 \div b2, l4>>,
                         IF up THEN 1 ELSE 0)
         IN  [hi |-> m.hi, lo |-> m.lo, exp |-> ea - eb]

\* x * k for a double x >= 0 and an integer k >= 0: the product rounded to
\* the nearest double, ties to even
FloatMul(x, k) ==
    IF x.hi = 0 \/ k = 0 THEN FloatZero
    ELSE LET v4 == x.lo[4] * k
             v3 == x.lo[3] * k + (v4 \div LimbBase)
             v2 == x.lo[2] * k + (v3 \div LimbBase)
             v1 == x.lo[1] * k + (v2 \div LimbBase)
             hi == x.hi * k + (v1 \div LimbBase)
             p4 == v4 % LimbBase
             unit == Pow2(BitLen(hi) - 1)
             low  == p4 % unit
             up   == \/ 2 * low > unit
                     \/ 2 * low = unit /\ (p4 \div unit) % 2 = 1
             m == Carry(hi, <<v1 % LimbBase, v2 % LimbBase, v3 % LimbBase,
                              p4 - low>>, IF up THEN unit ELSE 0)
         IN  [hi |-> m.hi, lo |-> m.lo, exp |-> x.exp]

\* int(x) and floor(x) of a double x >= 0
FloatFloor(x) ==
    IF x.exp >= 0 THEN x.hi \div Pow2(x.exp)
    ELSE x.hi * Pow2(-x.exp) + (x.lo[1] \div Pow2(LimbBits + x.exp))

-----------------------------------------------------------------------------
(* downsample_to_width *)

\* the evenly spaced indices rounded to the nearest integer
LinspaceNearest(stop, num) ==
    IF num = 1 THEN <<0>>
    ELSE [k \in 1..num |->
            (2 * (k - 1) * stop + (num - 1)) \div (2 * (num - 1))]

\* one index too few: num counted as the number of gaps
LinspaceShort(stop, num) ==
    IF num <= 1 THEN <<>>
    ELSE [k \in 1..(num - 1) |-> ((k - 1) * stop) \div (num - 1)]

\* numpy.linspace(0, stop, num, dtype=int)
Linspace(stop, num) ==
    IF num = 1 THEN <<0>>
    ELSE [k \in 1..num |->
            IF k = num THEN stop
            ELSE FloatFloor(FloatMul(FloatDiv(stop, num - 1), k - 1))]

RECURSIVE MaxFrom(_, _)
MaxFrom(data, i) ==
    IF i = Len(data) THEN data[i]
    ELSE LET rest == MaxFrom(data, i + 1)
         IN  IF data[i] >= rest THEN data[i] ELSE rest

\* max(data) of a list that is not empty
Max(data) == MaxFrom(data, 1)

\* int((count / max_value) * max_height)
Scale(count, max_value, max_height) ==
    FloatFloor(FloatMul(FloatDiv(count, max_value), max_height))

ValueError == [status |-> "ValueError", indices |-> <<>>, data |-> <<>>,
               scaled |-> <<>>]

\* the indices np.linspace selects; computed only when the series is longer
\* than max_width
Indices(n, max_width) ==
    IF n > max_width THEN Linspace(n - 1, max_width) ELSE <<>>

\* lines 26-30: the selected values
Data(counts, max_width) ==
    IF Len(counts) > max_width
    THEN LET indices == Indices(Len(counts), max_width)
         IN  [k \in 1..Len(indices) |-> counts[indices[k] + 1]]
    ELSE counts

\* np.linspace raises ValueError for a negative number of samples, and max()
\* for an empty list
downsample_to_width(counts, max_height, max_width) ==
    IF Len(counts) > max_width /\ max_width < 0 THEN ValueError
    ELSE LET data == Data(counts, max_width)
         IN  IF data = <<>> THEN ValueError
             ELSE LET max_value == IF Max(data) = 0 THEN 1 ELSE Max(data)
                  IN  [status |-> "ok",
                       indices |-> Indices(Len(counts), max_width),
                       data |-> data,
                       scaled |-> [k \in 1..Len(data) |->
                                     Scale(data[k], max_value, max_height)]]

-----------------------------------------------------------------------------
(* main *)

\* interval = timedelta(seconds=1)
interval == 2

\* the interval closed at its end: s_time <= time_cursor <= e_time
IsActiveClosed(s_time, t, e_time) == s_time <= t /\ t <= e_time

\* s_time <= time_cursor < e_time
IsActive(s_time, t, e_time) == s_time <= t /\ t < e_time

RECURSIVE ActiveFrom(_, _, _, _, _)
ActiveFrom(s, e, d, t, i) ==
    IF i > Len(s) THEN 0
    ELSE (IF IsActive(s[i][2], t, EndOf(s[i][1], s[i][2], e, d)) THEN 1 ELSE 0)
         + ActiveFrom(s, e, d, t, i + 1)

\* the inner for loop of main
Active(s, e, d, t) == ActiveFrom(s, e, d, t, 1)

-----------------------------------------------------------------------------
(* draw_ascii_chart_horizontal and print_longest_tests: what they print *)

default_max_height == 10
default_max_width == 80
\* longest_tests[:10]
top_count == 10

Printed(kind, cells) == [kind |-> kind, cells |-> cells]

RECURSIVE Rstrip(_)
Rstrip(row) ==
    IF row = <<>> THEN row
    ELSE IF row[Len(row)] = 0 THEN Rstrip(SubSeq(row, 1, Len(row) - 1))
         ELSE row

\* one printed row of the chart: 1 is the block, 0 a blank
ChartRow(scaled, level) ==
    Rstrip([k \in 1..Len(scaled) |-> IF scaled[k] >= level THEN 1 ELSE 0])

draw_ascii_chart_horizontal(counts, max_height, max_width) ==
    IF counts = <<>> THEN <<Printed("No data.", <<>>)>>
    ELSE LET r == downsample_to_width(counts, max_height, max_width)
         IN  [k \in 1..max_height |->
                Printed("chart", ChartRow(r.scaled, max_height + 1 - k))]

\* sorted(durations.items(), key=lambda x: -x[1]): stable, longest first
RECURSIVE InsertByDuration(_, _)
InsertByDuration(sorted, x) ==
    IF sorted = <<>> THEN <<x>>
    ELSE IF x[2] > Head(sorted)[2] THEN <<x>> \o sorted
         ELSE <<Head(sorted)>> \o InsertByDuration(Tail(sorted), x)

RECURSIVE SortByDurationFrom(_, _, _)
SortByDurationFrom(sorted, d, i) ==
    IF i > Len(d) THEN sorted
    ELSE SortByDurationFrom(InsertByDuration(sorted, d[i]), d, i + 1)

Take(s, n) == SubSeq(s, 1, IF Len(s) < n THEN Len(s) ELSE n)

LongestTests(d) == Take(SortByDurationFrom(<<>>, d, 1), top_count)

print_longest_tests(longest_tests, count) ==
    <<Printed("Top Longest Running Tests:", <<>>)>>
    \o [k \in 1..Len(Take(longest_tests, count)) |->
          Printed("test", longest_tests[k])]

-----------------------------------------------------------------------------
(* The run of main *)

PipelineInit ==
    /\ pc = "parse"
    /\ lines_read = 0
    /\ log_lines = <<>>
    /\ starts = <<>>
    /\ ends = <<>>
    /\ durations = <<>>
    /\ timeline = <<>>
    /\ time_cursor = 0
    /\ end_time = 0
    /\ parallel_counts = <<>>
    /\ stdout = <<>>
    /\ ds_counts = <<>>
    /\ ds_height = 0
    /\ ds_width = 0
    /\ ds_result = ValueError

dsVars == <<ds_counts, ds_height, ds_width, ds_result>>

\* one iteration of the for loop of parse_log_lines, on the next line of the
\* log file
ReadLine ==
    /\ pc = "parse"
    /\ lines_read < MaxLines
    /\ \E line \in Lines(Timestamps) :
         LET m == ParseLine(<<starts, ends, durations>>, line)
         IN  /\ starts' = m[1]
             /\ ends' = m[2]
             /\ durations' = m[3]
    /\ lines_read' = lines_read + 1
    /\ UNCHANGED <<pc, log_lines, timeline, time_cursor, end_time,
                   parallel_counts, stdout, dsVars>>

\* the log is exhausted: parse_log_lines returns, build_timeline runs, and
\* main enters the sampling loop or, with an empty timeline, returns
BuildTimeline ==
    /\ pc = "parse"
    /\ timeline' = build_timeline(starts, ends, durations)
    /\ IF timeline' # <<>>
       THEN /\ pc' = "sample"
            /\ time_cursor' = timeline'[1][1]
            /\ end_time' = timeline'[Len(timeline')][1]
       ELSE /\ pc' = "done"
            /\ UNCHANGED <<time_cursor, end_time>>
    /\ UNCHANGED <<lines_read, log_lines, starts, ends, durations,
                   parallel_counts, stdout, dsVars>>

\* while time_cursor < end_time
LoopConditionStrict(cursor, last) == cursor < last

\* while time_cursor <= end_time
LoopCondition(cursor, last) == cursor <= last

\* one iteration of the while loop
Sample ==
    /\ pc = "sample"
    /\ LoopCondition(time_cursor, end_time)
    /\ parallel_counts' =
         Append(parallel_counts,
                <<time_cursor, Active(starts, ends, durations, time_cursor)>>)
    /\ time_cursor' = time_cursor + interval
    /\ UNCHANGED <<pc, lines_read, log_lines, starts, ends, durations,
                   timeline, end_time, stdout, dsVars>>

\* the while loop is left: the chart and the table are printed
Render ==
    /\ pc = "sample"
    /\ ~LoopCondition(time_cursor, end_time)
    /\ stdout' =
         draw_ascii_chart_horizontal(
             [k \in 1..Len(parallel_counts) |-> parallel_counts[k][2]],
             default_max_height, default_max_width)
         \o print_longest_tests(LongestTests(durations), top_count)
    /\ pc' = "done"
    /\ UNCHANGED <<lines_read, log_lines, starts, ends, durations, timeline,
                   time_cursor, end_time, parallel_counts, dsVars>>

Next == ReadLine \/ BuildTimeline \/ Sample \/ Render

Spec == PipelineInit /\ [][Next]_vars

-----------------------------------------------------------------------------
(* parse_log_lines on its own, applied to a whole log *)

RECURSIVE SeqsUpTo(_, _)
SeqsUpTo(S, n) ==
    IF n = 0 THEN {<<>>}
    ELSE LET shorter == SeqsUpTo(S, n - 1)
         IN  shorter \cup {Append(q, x) : q \in shorter, x \in S}

LogTimestamps == {0, 1}

ParseInit ==
    /\ pc = "log"
    /\ log_lines \in SeqsUpTo(Lines(LogTimestamps), MaxLogLen)
    /\ lines_read = 0
    /\ starts = <<>>
    /\ ends = <<>>
    /\ durations = <<>>
    /\ timeline = <<>>
    /\ time_cursor = 0
    /\ end_time = 0
    /\ parallel_counts = <<>>
    /\ stdout = <<>>
    /\ ds_counts = <<>>
    /\ ds_height = 0
    /\ ds_width = 0
    /\ ds_result = ValueError

ParseLog ==
    /\ pc = "log"
    /\ LET m == parse_log_lines(log_lines)
       IN  /\ starts' = m[1]
           /\ ends' = m[2]
           /\ durations' = m[3]
    /\ lines_read' = Len(log_lines)
    /\ pc' = "parsed"
    /\ UNCHANGED <<log_lines, timeline, time_cursor, end_time,
                   parallel_counts, stdout, dsVars>>

SpecParse == ParseInit /\ [][ParseLog]_vars

-----------------------------------------------------------------------------
(* downsample_to_width on its own *)

\* counts and a height at which the double quotient falls short, and a
\* series and a width at which the double index falls short
TallCounts == {15, 22}
LongSeries == [k \in 1..31 |-> k % 2]
Heights == {0, 1, 3, default_max_height, 22}
Widths == (-1..MaxWidth) \cup {23}

SeriesInputs ==
    SeqsUpTo(0..MaxCount, MaxLen)
    \cup {<<a, b>> : a \in TallCounts, b \in TallCounts}
    \cup {LongSeries}

DownsampleInit ==
    /\ pc = "call"
    /\ ds_counts \in SeriesInputs
    /\ ds_height \in Heights
    /\ ds_width \in Widths
    /\ ds_result = ValueError
    /\ log_lines = <<>>
    /\ lines_read = 0
    /\ starts = <<>>
    /\ ends = <<>>
    /\ durations = <<>>
    /\ timeline = <<>>
    /\ time_cursor = 0
    /\ end_time = 0
    /\ parallel_counts = <<>>
    /\ stdout = <<>>

Downsample ==
    /\ pc = "call"
    /\ ds_result' = downsample_to_width(ds_counts, ds_height, ds_width)
    /\ pc' = "returned"
    /\ UNCHANGED <<lines_read, log_lines, starts, ends, durations, timeline,
                   time_cursor, end_time, parallel_counts, stdout,
                   ds_counts, ds_height, ds_width>>

SpecDownsample == DownsampleInit /\ [][Downsample]_vars

-----------------------------------------------------------------------------
(* Properties *)

\* the positions of the dict starts
StartIdx == 1..Len(starts)
TestAt(i) == starts[i][1]
StartAt(i) == starts[i][2]
HasPass(i) == TestAt(i) \in Keys(ends)
\* the end of the interval of the test at position i of starts
IntervalEnd(i) ==
    IF HasPass(i) THEN Get(ends, TestAt(i), 0)
    ELSE IF TestAt(i) \in Keys(durations)
         THEN StartAt(i) + Get(durations, TestAt(i), 0)
         ELSE StartAt(i)
\* a start entry, no end entry and no duration entry
ZeroWidth(i) == ~HasPass(i) /\ TestAt(i) \notin Keys(durations)
SampleIdx == 1..Len(parallel_counts)
SampleTime(k) == parallel_counts[k][1]
SampleCount(k) == parallel_counts[k][2]

\* C1: at every grid point t the recorded active count is the number of
\* tests of starts with start <= t < end; a test whose end equals t is not
\* counted at t, a test whose start equals t and whose end is later is.
C1_HalfOpenCount ==
    \A k \in SampleIdx :
        /\ SampleCount(k) =
             Cardinality({i \in StartIdx : /\ StartAt(i) <= SampleTime(k)
                                           /\ SampleTime(k) < IntervalEnd(i)})
        /\ SampleCount(k) <=
             Cardinality({i \in StartIdx : IntervalEnd(i) # SampleTime(k)})
        /\ SampleCount(k) >=
             Cardinality({i \in StartIdx : /\ StartAt(i) = SampleTime(k)
                                           /\ IntervalEnd(i) > SampleTime(k)})

\* a grid point at which one test ends, having started earlier, and the
\* other test starts: the count there is 1
C1_Witness ==
    /\ pc = "done"
    /\ \E k \in SampleIdx : \E i, j \in StartIdx :
          /\ StartAt(i) < SampleTime(k)
          /\ IntervalEnd(i) = SampleTime(k)
          /\ StartAt(j) = SampleTime(k)
          /\ IntervalEnd(j) > SampleTime(k)
          /\ SampleCount(k) = 1

C3_NoDataPrinted ==
    (pc = "done" /\ timeline = <<>>) => stdout = <<Printed("No data.", <<>>)>>

Min(a, b) == IF a <= b THEN a ELSE b

\* C4 as stated, for the widths W >= 1: for any series, the empty one
\* included, downsample_to_width returns a sequence of length
\* min(len(series), W).
C4_LengthAnyInput ==
    (pc = "returned" /\ ds_width >= 1) =>
        /\ ds_result.status = "ok"
        /\ Len(ds_result.scaled) = Min(Len(ds_counts), ds_width)

\* C4, amended: for a series that is not empty and W >= 1 the result has
\* length min(len(series), W); for the empty series and for W <= 0 the call
\* raises ValueError and returns nothing.
C4_LengthOrValueError ==
    pc = "returned" =>
        IF ds_counts # <<>> /\ ds_width >= 1
        THEN /\ ds_result.status = "ok"
             /\ Len(ds_result.scaled) = Min(Len(ds_counts), ds_width)
        ELSE ds_result.status = "ValueError"

\* a series longer than W >= 2 has been cut to W values
C4_Witness ==
    /\ pc = "returned"
    /\ ds_width >= 2
    /\ Len(ds_counts) > ds_width
    /\ Len(ds_result.scaled) = ds_width

\* the number of selected indices and their position in the source series
SelectedIdx == 1..Len(ds_result.indices)
\* k * (len - 1) / (W - 1), rounded down
ExactIndex(k) == ((k - 1) * (Len(ds_counts) - 1)) \div (ds_width - 1)
\* x is an integer nearest to k * (len - 1) / (W - 1)
IsNearest(x, k) ==
    LET d == x * (ds_width - 1) - (k - 1) * (Len(ds_counts) - 1)
    IN  2 * d <= ds_width - 1 /\ -2 * d <= ds_width - 1

\* C5 as stated, for the widths W >= 2 at which k*(len-1)/(W-1) is defined:
\* a series longer than W yields W indices, the k-th being k*(len-1)/(W-1)
\* rounded to the nearest integer, so that 0 and len-1 are both selected;
\* duplicates are kept.
C5_NearestIndex ==
    (pc = "returned" /\ Len(ds_counts) > ds_width /\ ds_width >= 2) =>
        /\ ds_result.status = "ok"
        /\ Len(ds_result.indices) = ds_width
        /\ \E k \in SelectedIdx : ds_result.indices[k] = 0
        /\ \E k \in SelectedIdx : ds_result.indices[k] = Len(ds_counts) - 1
        /\ \A k \in SelectedIdx : IsNearest(ds_result.indices[k], k)

\* C5, amended: a series longer than W >= 2 yields W indices, the k-th being
\* k*(len-1)/(W-1) rounded down, or one less where that quotient is a whole
\* number and the product of doubles falls just short of it; the first is 0
\* and the last len-1, and the selected values are the series at these
\* indices, none dropped.  W = 1 selects index 0 alone; W <= 0 raises
\* ValueError.
C5_FloorIndex ==
    (pc = "returned" /\ Len(ds_counts) > ds_width) =>
        IF ds_width <= 0 THEN ds_result.status = "ValueError"
        ELSE /\ ds_result.status = "ok"
             /\ Len(ds_result.indices) = ds_width
             /\ ds_result.indices[1] = 0
             /\ ds_width >= 2 =>
                   /\ ds_result.indices[ds_width] = Len(ds_counts) - 1
                   /\ \A k \in SelectedIdx :
                         \/ ds_result.indices[k] = ExactIndex(k)
                         \/ /\ ds_result.indices[k] = ExactIndex(k) - 1
                            /\ ((k - 1) * (Len(ds_counts) - 1))
                                 % (ds_width - 1) = 0
             /\ Len(ds_result.data) = ds_width
             /\ \A k \in SelectedIdx :
                   ds_result.data[k] = ds_counts[ds_result.indices[k] + 1]

\* an index whose quotient has a fraction of one half or more, rounded down
C5_Witness ==
    /\ pc = "returned"
    /\ ds_width >= 2
    /\ Len(ds_counts) > ds_width
    /\ ds_result.status = "ok"
    /\ \E k \in SelectedIdx :
          /\ ds_result.indices[k] = ExactIndex(k)
          /\ 2 * (((k - 1) * (Len(ds_counts) - 1)) % (ds_width - 1))
               >= ds_width - 1

\* C7: for counts >= 0 and max_height >= 0 every returned value is
\* floor(value * max_height / m), m the maximum of the selected values or 1
\* when that is 0, and lies in 0..max_height; all zeros give all zeros.
C7_ExactScale ==
    (pc = "returned" /\ ds_result.status = "ok") =>
        LET top == Max(ds_result.data)
            m == IF top = 0 THEN 1 ELSE top
        IN  \A k \in 1..Len(ds_result.scaled) :
                /\ ds_result.scaled[k] = (ds_result.data[k] * ds_height) \div m
                /\ ds_result.scaled[k] \in 0..ds_height

\* the records in the order build_timeline appends them
Appended == Unsorted(starts, ends, durations, 1)
TimelineIdx == 1..Len(timeline)
Built == pc \in {"sample", "done"}

\* C6 as stated: the timeline is sorted by timestamp and records with equal
\* timestamps keep their insertion order; a zero-width test's Start record
\* precedes its End record.
C6_StableByTimestamp == Built => timeline = SortByTimestamp(Appended)

\* C6, amended: the timeline holds the appended records sorted by timestamp;
\* records with equal timestamps are ordered by kind, End before Start, and
\* then by test name, whatever their insertion order; a zero-width test's End
\* record precedes its Start record.
C6_TupleOrder ==
    Built =>
        /\ Len(timeline) = Len(Appended)
        /\ {timeline[r] : r \in TimelineIdx}
             = {Appended[r] : r \in 1..Len(Appended)}
        /\ \A q, r \in TimelineIdx :
              q < r =>
                  \/ timeline[q][1] < timeline[r][1]
                  \/ /\ timeline[q][1] = timeline[r][1]
                     /\ timeline[q][2] = "end"
                     /\ timeline[r][2] = "start"
                  \/ /\ timeline[q][1] = timeline[r][1]
                     /\ timeline[q][2] = timeline[r][2]
                     /\ timeline[q][3] < timeline[r][3]

\* two tests start at the same time, the one with the later name first in
\* starts, and a zero-width test's End record comes before its Start record
C6_Witness ==
    /\ Built
    /\ \E i, j \in StartIdx :
          i < j /\ StartAt(i) = StartAt(j) /\ TestAt(i) > TestAt(j)
    /\ \E i \in StartIdx : \E q, r \in TimelineIdx :
          /\ ZeroWidth(i)
          /\ q < r
          /\ timeline[q] = <<StartAt(i), "end", TestAt(i)>>
          /\ timeline[r] = <<StartAt(i), "start", TestAt(i)>>

\* the last line of the log that matches the start pattern for test, and the
\* last that matches the pass pattern and not the start pattern; 0 for none
LogIdx == 1..Len(log_lines)
IsStartOf(n, test) ==
    log_lines[n].exec_match /\ log_lines[n].exec_test = test
IsPassOf(n, test) ==
    /\ log_lines[n].pass_match
    /\ ~log_lines[n].exec_match
    /\ log_lines[n].pass_test = test
LastStart(test) ==
    IF \E n \in LogIdx : IsStartOf(n, test)
    THEN CHOOSE n \in LogIdx :
           IsStartOf(n, test) /\ \A o \in LogIdx : IsStartOf(o, test) => o <= n
    ELSE 0
LastPass(test) ==
    IF \E n \in LogIdx : IsPassOf(n, test)
    THEN CHOOSE n \in LogIdx :
           IsPassOf(n, test) /\ \A o \in LogIdx : IsPassOf(o, test) => o <= n
    ELSE 0

\* C8: after parse_log_lines, starts[test] is the timestamp of the last line
\* matching the start pattern for test, ends[test] and durations[test] the
\* timestamp and duration of the last line matching the pass pattern only; a
\* line matching both updates starts alone, a line matching neither nothing.
C8_LastLineWins ==
    pc = "parsed" =>
        \A test \in Tests :
            /\ Has(starts, test) <=> LastStart(test) # 0
            /\ Has(starts, test) =>
                  Get(starts, test, 0) = log_lines[LastStart(test)].timestamp
            /\ Has(ends, test) <=> LastPass(test) # 0
            /\ Has(durations, test) <=> LastPass(test) # 0
            /\ Has(ends, test) =>
                  /\ Get(ends, test, 0) = log_lines[LastPass(test)].timestamp
                  /\ Get(durations, test, 0)
                       = log_lines[LastPass(test)].duration

\* a test started twice at different times, the second time by a line that
\* matches both patterns and names in its pass part a test that never passed;
\* and a line that matches nothing
C8_Witness ==
    /\ pc = "parsed"
    /\ \E n, o \in LogIdx :
          /\ n < o
          /\ log_lines[n].exec_match
          /\ log_lines[o].exec_match /\ log_lines[o].pass_match
          /\ log_lines[n].exec_test = log_lines[o].exec_test
          /\ log_lines[n].timestamp # log_lines[o].timestamp
          /\ ~Has(ends, log_lines[o].pass_test)
    /\ \E n \in LogIdx : ~log_lines[n].exec_match /\ ~log_lines[n].pass_match

\* the smallest and the largest timestamp among the starts and the ends of
\* the tests of starts
RecordTimes ==
    {StartAt(i) : i \in StartIdx} \cup {IntervalEnd(i) : i \in StartIdx}
SetMin(S) == CHOOSE t \in S : \A u \in S : t <= u
SetMax(S) == CHOOSE t \in S : \A u \in S : u <= t

\* the samples taken so far are the first grid points from first, in order,
\* none after last
OnGrid(first, last) ==
    /\ Len(parallel_counts) <= (last - first) \div interval + 1
    /\ \A k \in SampleIdx : SampleTime(k) = first + (k - 1) * interval
    /\ \A k \in SampleIdx : SampleTime(k) <= last
    /\ \A k \in SampleIdx : k > 1 => SampleTime(k - 1) < SampleTime(k)

\* C9: for a timeline that is not empty the sampling loop terminates, with
\* exactly one sample for each grid point first + k * 1 s, k = 0 ..
\* floor((last - first) / 1 s): the first sample at first, the samples in
\* strictly increasing order, none after last.  In the loop the cursor is the
\* next grid point and the samples still to take are counted by
\* floor((last - first) / 1 s) + 1 - len(parallel_counts), which every
\* iteration lowers: the loop ends, and it ends with that count at 0.
C9_GridSampled ==
    (Built /\ timeline # <<>>) =>
        LET first == SetMin(RecordTimes)
            last == SetMax(RecordTimes)
            steps == (last - first) \div interval
        IN  /\ OnGrid(first, last)
            /\ pc = "sample" =>
                  /\ time_cursor = first + Len(parallel_counts) * interval
                  /\ end_time = last
                  /\ LoopCondition(time_cursor, end_time)
                       <=> Len(parallel_counts) < steps + 1
            /\ pc = "done" => Len(parallel_counts) = steps + 1

\* a finished run whose last grid point lies before the last timestamp, after
\* more than one sample
C9_Witness ==
    /\ pc = "done"
    /\ Len(parallel_counts) >= 2
    /\ SampleTime(Len(parallel_counts)) < SetMax(RecordTimes)

====
